---- MODULE Spec2Model ----
(***************************************************************************)
(* syswall: src/child_process.rs.                                          *)
(*                                                                         *)
(* Two state machines share this module:                                   *)
(*   Spec       the trace loop child_loop, one action per statement, with  *)
(*              the traced child (what ptrace and waitpid report) as the   *)
(*              nondeterministic input of each trace request;              *)
(*   SpecReader the remote memory readers get_child_buffer and             *)
(*              get_child_buffer_cstr over a bounded child memory.         *)
(***************************************************************************)
EXTENDS Integers, Sequences, FiniteSets, TLC

\* ------------------------------------------------------------------ bounds
\* Iterations of child_loop that are explored.
MaxIter == 3
\* Chunks of child memory a string can span.
MaxChunks == 3
\* The scan bound C9 speaks of, in chunks.
MaxScanChunks == 2

\* ------------------------------------------------------- the traced child
\* Syscalls the child makes.  "getpid" stands for every syscall that has no
\* entry in the configuration; "none" is what orig_rax holds outside a syscall.
SyscallIds == {"open", "close", "getpid"}
NoSyscall == "none"

Paths == {"/tmp/x", "/tmp/y"}
\* A path pointer that is not mapped in the child (open(NULL), a wild pointer).
BadPtr == "badptr"
Modes == {"RO", "WO"}
NoArg == "-"

\* What the child is doing.  st: "stop" (in a ptrace-stop that waitpid has
\* reported), "run" (resumed), "gone" (terminated).  at: the kind of the last
\* stop; nr, arg, mode: the syscall in progress; ret: its result at the exit.
ChildAt(at, nr, arg, mode, ret) ==
    [st |-> "stop", at |-> at, nr |-> nr, arg |-> arg, mode |-> mode, ret |-> ret]

ChildGone == [st |-> "gone", at |-> "signal", nr |-> NoSyscall, arg |-> NoArg,
              mode |-> NoArg, ret |-> NoArg]

\* The arguments a syscall can carry.
EntryStops ==
    {ChildAt("entry", "open", p, m, "ENOSYS") : p \in Paths \cup {BadPtr}, m \in Modes}
    \cup {ChildAt("entry", "close", p, NoArg, "ENOSYS") : p \in Paths}
    \cup {ChildAt("entry", "getpid", NoArg, NoArg, "ENOSYS")}

SignalStop == ChildAt("signal", NoSyscall, NoArg, NoArg, NoArg)

\* The stops a resumed child can deliver next (ptrace(2)): a syscall-enter-stop
\* is followed by the syscall-exit-stop of the same syscall or by the child's
\* death and by nothing else; from user mode the child enters a syscall, gets a
\* signal delivered, or dies.
NextStops(c) ==
    IF c.at = "entry"
    THEN {[c EXCEPT !.st = "stop", !.at = "exit", !.ret = r] : r \in {"ok", "err"}}
         \cup {ChildGone}
    ELSE EntryStops \cup {SignalStop, ChildGone}

\* ptrace::syscall(child): PTRACE_SYSCALL resumes a stopped child; ESRCH when
\* the child is gone, which includes a child killed while it was stopped.
PtraceSyscall(c) ==
    IF c.st = "stop"
    THEN {[ok |-> TRUE, child |-> [c EXCEPT !.st = "run"]],
          [ok |-> FALSE, child |-> ChildGone]}
    ELSE {[ok |-> FALSE, child |-> c]}

\* wait::waitpid(pid, None): blocks until the resumed child stops or
\* terminates; ECHILD when there is no child left to wait for.
WaitPid(c) ==
    CASE c.st = "run" -> {[ok |-> TRUE, child |-> n] : n \in NextStops(c)}
      [] c.st = "gone" -> {[ok |-> FALSE, child |-> c]}
      [] OTHER -> {}

\* The register file of a stopped child (struct user_regs_struct): orig_rax is
\* the syscall number, rdi and rsi the arguments, rax the result.
RegsOf(c) == [orig_rax |-> c.nr, rdi |-> c.arg, rsi |-> c.mode, rax |-> c.ret]

NoRegs == [orig_rax |-> NoSyscall, rdi |-> NoArg, rsi |-> NoArg, rax |-> NoArg]

\* ptrace::getregs(child): the registers of a stopped child; ESRCH when the
\* child is gone; any other errno as a transient failure.
GetRegs(c) ==
    IF c.st = "stop"
    THEN {[res |-> "Ok", regs |-> RegsOf(c), child |-> c],
          [res |-> "EIO", regs |-> NoRegs, child |-> c],
          [res |-> "ESRCH", regs |-> NoRegs, child |-> ChildGone]}
    ELSE {[res |-> "ESRCH", regs |-> NoRegs, child |-> c]}

\* ------------------------------------------------------------ ProcessState
ProcessFileRec(s, f, m) == [state |-> s, filename |-> f, mode |-> m, flags |-> "Unknown"]

\* ProcessState::new()
NewProcessState == [files |-> << >>]

\* Index of the first record of identity f in state s, 0 when there is none.
RECURSIVE FindFrom(_, _, _, _)
FindFrom(files, f, s, i) ==
    IF i > Len(files) THEN 0
    ELSE IF files[i].filename = f /\ files[i].state = s THEN i
    ELSE FindFrom(files, f, s, i + 1)

FindRec(files, f, s) == FindFrom(files, f, s, 1)

\* record_open: upsert a record of the identity in state Opened.
record_open(ps, f, m) ==
    LET o == FindRec(ps.files, f, "Opened")
        c == FindRec(ps.files, f, "Closed")
    IN  IF o > 0 THEN [ps EXCEPT !.files[o] = ProcessFileRec("Opened", f, m)]
        ELSE IF c > 0 THEN [ps EXCEPT !.files[c] = ProcessFileRec("Opened", f, m)]
        ELSE [ps EXCEPT !.files = Append(@, ProcessFileRec("Opened", f, m))]

\* record_close that notes a close it found no open for as a Closed record.
record_close_Insert(ps, f) ==
    LET o == FindRec(ps.files, f, "Opened")
    IN  IF o > 0 THEN [ps EXCEPT !.files[o].state = "Closed"]
        ELSE [ps EXCEPT !.files = Append(@, ProcessFileRec("Closed", f, NoArg))]

\* record_close: the matching Opened record becomes Closed; no record, no-op.
record_close(ps, f) ==
    LET o == FindRec(ps.files, f, "Opened")
    IN  IF o > 0 THEN [ps EXCEPT !.files[o].state = "Closed"] ELSE ps

\* record_open_failure: insert a CouldNotOpen record.
record_open_failure(ps, f, m) ==
    [ps EXCEPT !.files = Append(@, ProcessFileRec("CouldNotOpen", f, m))]

\* ----------------------------------------------------------------- handlers
\* SyscallConfigMap::new(): the ids that have a handler pair.
Configured == {"open", "close"}

NoHandoff == [tag |-> "none", path |-> NoArg, mode |-> NoArg]

\* The remote reads a pre-handler makes: the path argument of open, through
\* get_child_buffer_cstr.  The read fails when the pointer is not mapped or the
\* child is gone, and process_vm_readv's failure is the reader's panic.
PreReadFails(c, id, r) == id = "open" /\ (r.rdi = BadPtr \/ c.st # "stop")

\* handle_pre_syscall: the handoff value.
handle_pre_syscall(id, r) ==
    CASE id = "open" -> [tag |-> "open", path |-> r.rdi, mode |-> r.rsi]
      [] id = "close" -> [tag |-> "close", path |-> r.rdi, mode |-> NoArg]
      [] OTHER -> NoHandoff

\* handle_post_syscall: the new ProcessState.
handle_post_syscall(h, ps, id, r) ==
    CASE id = "open" /\ h.tag = "open" ->
            IF r.rax = "ok" THEN record_open(ps, h.path, h.mode)
            ELSE record_open_failure(ps, h.path, h.mode)
      [] id = "close" /\ h.tag = "close" ->
            IF r.rax = "ok" THEN record_close(ps, h.path) ELSE ps
      [] OTHER -> ps

\* The snapshots a handler may leave in the register file passed to it by
\* &mut: a handler of a configured syscall may change it in place, the
\* pre-handler to deny the syscall (orig_rax = -1), the post-handler to alter
\* the result (rax); the pass-through pair of an unconfigured syscall leaves it
\* as it is.
\* pre_snapshots of a dispatch that runs the deny of a configured syscall for
\* every id.
pre_snapshots_Any(id, r) == {r, [r EXCEPT !.orig_rax = NoSyscall]}

pre_snapshots(id, r) ==
    IF id \in Configured THEN {r, [r EXCEPT !.orig_rax = NoSyscall]} ELSE {r}

post_snapshots(id, r) ==
    IF id \in Configured THEN {r, [r EXCEPT !.rax = "EPERM"]} ELSE {r}

\* ------------------------------------------------------- the child's memory
\* The chunk get_child_buffer_cstr reads at a time (lines 70-71; line 81).
ChunkSize == 255

\* The child's memory: the addresses [0, mapEnd) are mapped, the addresses in
\* zeros hold a zero byte and every other address a non-zero byte that its
\* pattern gives: ASCII letters; letters with a stray 0xE9 every fourth byte
\* (Latin-1 text, not valid UTF-8); the three bytes of U+20AC, E2 82 AC,
\* repeated (valid UTF-8 when read from a multiple of three).
Patterns == {"ascii", "latin1", "utf8"}

Byte(m, a) ==
    IF a \in m.zeros THEN 0
    ELSE CASE m.pattern = "ascii" -> 97 + (a % 26)
           [] m.pattern = "latin1" -> IF a % 4 = 3 THEN 233 ELSE 97 + (a % 26)
           [] OTHER -> <<226, 130, 172>>[(a % 3) + 1]

Memory(zs, e, p) == [zeros |-> zs, mapEnd |-> e, pattern |-> p]

\* uio::process_vm_readv(pid, [local buffer of n zero bytes], [RemoteIoVec{b, n}]):
\* the local buffer after the call.  A range that is mapped is copied in full.
\* A range whose first byte is not mapped fails with EFAULT.  A range that
\* leaves the mapping part way either fails (process_vm_readv(2): no partial
\* transfer splits one iovec element) or is copied up to the end of the mapping,
\* the call returning the short count (what the kernel does at a page border);
\* the bytes not transferred keep the zero the buffer was created with.
ProcessVmReadv(m, b, n) ==
    LET full == [i \in 1..n |-> Byte(m, b + i - 1)]
        part == [i \in 1..n |-> IF b + i - 1 < m.mapEnd THEN Byte(m, b + i - 1) ELSE 0]
    IN  IF b + n <= m.mapEnd \/ n = 0
        THEN {[ok |-> TRUE, n |-> n, buf |-> full]}
        ELSE IF b >= m.mapEnd
        THEN {[ok |-> FALSE, n |-> 0, buf |-> part]}
        ELSE {[ok |-> FALSE, n |-> 0, buf |-> part],
              [ok |-> TRUE, n |-> m.mapEnd - b, buf |-> part]}

\* ------------------------------------------------- String::from_utf8_lossy
\* A String is modelled by its bytes.  from_utf8_lossy keeps every well-formed
\* UTF-8 sequence and replaces every maximal ill-formed one (a lead byte with
\* the continuation bytes that fit it, or a single stray byte) by U+FFFD, the
\* bytes EF BF BD.
IsCont(b) == b >= 128 /\ b <= 191

SafeGet(s, i) == IF i <= Len(s) THEN s[i] ELSE 0

Second3(b, b1) ==
    \/ b = 224 /\ b1 >= 160 /\ b1 <= 191
    \/ b >= 225 /\ b <= 236 /\ IsCont(b1)
    \/ b = 237 /\ b1 >= 128 /\ b1 <= 159
    \/ b >= 238 /\ b <= 239 /\ IsCont(b1)

Second4(b, b1) ==
    \/ b = 240 /\ b1 >= 144 /\ b1 <= 191
    \/ b >= 241 /\ b <= 243 /\ IsCont(b1)
    \/ b = 244 /\ b1 >= 128 /\ b1 <= 143

\* The sequence that starts at s[i]: the bytes it takes and whether it is
\* well formed.
UnitAt(s, i) ==
    LET b == s[i]
        b1 == SafeGet(s, i + 1)
        b2 == SafeGet(s, i + 2)
        b3 == SafeGet(s, i + 3)
    IN  IF b < 128 THEN [n |-> 1, ok |-> TRUE]
        ELSE IF b >= 194 /\ b <= 223
        THEN IF IsCont(b1) THEN [n |-> 2, ok |-> TRUE] ELSE [n |-> 1, ok |-> FALSE]
        ELSE IF b >= 224 /\ b <= 239
        THEN IF ~Second3(b, b1) THEN [n |-> 1, ok |-> FALSE]
             ELSE IF ~IsCont(b2) THEN [n |-> 2, ok |-> FALSE]
             ELSE [n |-> 3, ok |-> TRUE]
        ELSE IF b >= 240 /\ b <= 244
        THEN IF ~Second4(b, b1) THEN [n |-> 1, ok |-> FALSE]
             ELSE IF ~IsCont(b2) THEN [n |-> 2, ok |-> FALSE]
             ELSE IF ~IsCont(b3) THEN [n |-> 3, ok |-> FALSE]
             ELSE [n |-> 4, ok |-> TRUE]
        ELSE [n |-> 1, ok |-> FALSE]

\* Whether the left-to-right scan starts a sequence at s[p].  Only continuation
\* bytes are ever taken into a sequence, so a byte that is none starts one, and
\* a continuation byte starts one unless the nearest byte before it that is no
\* continuation byte, at most three back, takes it in.
IsStart(s, p) ==
    \/ ~IsCont(s[p])
    \/ LET back == {q \in (p - 3)..(p - 1) : q >= 1 /\ ~IsCont(s[q])}
       IN  \/ back = {}
           \/ LET q == CHOOSE q \in back : \A r \in back : r <= q
              IN  q + UnitAt(s, q).n <= p

ReplacementChar == <<239, 191, 189>>

DecodedAt(s, p) ==
    IF ~IsStart(s, p) THEN << >>
    ELSE LET u == UnitAt(s, p)
         IN  IF u.ok THEN SubSeq(s, p, p + u.n - 1) ELSE ReplacementChar

\* The decoded sequences of s[lo..hi], joined (by halves, to bound the depth of
\* the recursion).
RECURSIVE DecodeRange(_, _, _)
DecodeRange(s, lo, hi) ==
    IF lo > hi THEN << >>
    ELSE IF lo = hi THEN DecodedAt(s, lo)
    ELSE LET mid == (lo + hi) \div 2
         IN  DecodeRange(s, lo, mid) \o DecodeRange(s, mid + 1, hi)

from_utf8_lossy(s) == DecodeRange(s, 1, Len(s))

\* final_buf.contains(&0) and final_buf.iter().position(|&x| x == 0)
Contains(buf, x) == \E i \in 1..Len(buf) : buf[i] = x

Position(buf, x) ==
    LET at == {i \in 1..Len(buf) : buf[i] = x}
    IN  (CHOOSE i \in at : \A j \in at : i <= j) - 1

\* ------------------------------------------------------ the reader's inputs
Bases == {0, 1}

\* An end of the mapping far enough that no chunk read from b leaves it.
FarEnd(b) == b + (MaxChunks + 1) * ChunkSize

\* Offsets of the zero byte at the borders of each chunk.
EdgeOffsets ==
    {k * ChunkSize + d : k \in 0..(MaxChunks - 1),
                         d \in {0, 1, 2, 3, ChunkSize - 2, ChunkSize - 1}}

Call(fn, b, n, m) == [fn |-> fn, base |-> b, len |-> n, mem |-> m]

\* Where the mapping ends when the first zero byte is at address z: far behind
\* it, right behind it, or a hundred bytes behind it.
EndOfMap(e, b, z) ==
    CASE e = "far" -> FarEnd(b)
      [] e = "nul" -> z + 1
      [] OTHER -> z + 100

\* Calls of get_child_buffer_cstr: a zero byte at every offset of every chunk;
\* at the chunk borders also with a second zero byte behind the first, with
\* each pattern, from each base and with each end of the mapping; and memory
\* that holds no zero byte at all.
CstrCalls ==
    {Call("cstr", 0, 0, Memory({z}, FarEnd(0), "ascii")) :
        z \in 0..(MaxChunks * ChunkSize - 1)}
    \cup
    {Call("cstr", b, 0,
          Memory({z \in {b + o} \cup {b + o + x : x \in more} :
                      z < EndOfMap(e, b, b + o)},
                 EndOfMap(e, b, b + o), p)) :
        b \in Bases, o \in EdgeOffsets, more \in {{}, {1}, {ChunkSize}},
        e \in {"far", "nul", "near"}, p \in Patterns}
    \cup
    {Call("cstr", b, 0, Memory({}, b + e, p)) :
        b \in Bases, e \in {0, 100, ChunkSize, MaxChunks * ChunkSize}, p \in Patterns}

\* Calls of get_child_buffer: lengths below, at and above a chunk, over memory
\* with and without a zero byte, mapped in full, in part and not at all.
BufferEnd(e, b, n) ==
    CASE e = "far" -> FarEnd(b)
      [] e = "none" -> b
      [] e = "two" -> b + 2
      [] OTHER -> b + n

BufferCalls ==
    {Call("buffer", b, n, Memory({b + x : x \in zs}, BufferEnd(e, b, n), p)) :
        b \in Bases, n \in {0, 1, 4, ChunkSize, ChunkSize + 45},
        zs \in {{}, {2}}, e \in {"far", "none", "two", "len"}, p \in Patterns}

NoCall == Call("none", 0, 0, Memory({}, 0, "ascii"))


\* ---------------------------------------------------------------- variables
VARIABLES
    pc,           \* the statement child_loop executes next
    child,        \* the traced child
    regs,         \* let mut regs, the entry snapshot
    syscall_id,   \* let syscall_id = regs.orig_rax
    handler_res,  \* let handler_res, the handoff
    exit_regs,    \* Ok(ref mut regs), the exit snapshot
    state,        \* let mut state = ProcessState::new()
    stderr,       \* the messages written by eprintln!
    getregs_res,  \* the value matched at line 136: "Ok", "ESRCH" or another errno
    iter,         \* iterations of the loop completed
    hist,         \* the trace requests and handler calls of this iteration
    lastHandler,  \* the last handler call made: "none", "pre" or "post"
    made,         \* the iteration and the syscall id handler_res was made for
    rd_pc,        \* the statement the reader executes next ("idle": no call)
    call,         \* the reader called, its arguments base and len, the memory
    current_base, \* let mut current_base
    final_buf,    \* let mut final_buf
    nul_idx,      \* let mut nul_idx
    rbuf,         \* let mut rbuf of get_child_buffer
    result        \* the String returned, as its bytes

rdVars == <<rd_pc, call, current_base, final_buf, nul_idx, rbuf, result>>

loopVars == <<pc, child, regs, syscall_id, handler_res, exit_regs, getregs_res,
              state, stderr, iter, hist, lastHandler, made>>

MsgTerminated == "Child process terminated"
MsgExitRegs == "Unable to get syscall registers after servicing"

\* The child is handed over stopped (the stop the attach controller waited
\* for); child_loop has built its configuration and an empty ProcessState.
LoopInit ==
    /\ pc = "syscall1"
    /\ child = SignalStop
    /\ regs = NoRegs
    /\ syscall_id = NoSyscall
    /\ handler_res = NoHandoff
    /\ exit_regs = NoRegs
    /\ getregs_res = "none"
    /\ state = NewProcessState
    /\ stderr = {}
    /\ iter = 0
    /\ hist = << >>
    /\ lastHandler = "none"
    /\ made = [iter |-> -1, id |-> NoSyscall]

\* No reader is running.
ReaderIdle ==
    /\ rd_pc = "idle"
    /\ call = NoCall
    /\ current_base = 0
    /\ final_buf = << >>
    /\ nul_idx = -1
    /\ rbuf = << >>
    /\ result = << >>

Init == LoopInit /\ ReaderIdle

\* ptrace::syscall(child).expect(..)  (line 122)
Syscall1 ==
    /\ pc = "syscall1"
    /\ iter < MaxIter
    /\ \E r \in PtraceSyscall(child) :
        /\ child' = r.child
        /\ pc' = IF r.ok THEN "wait1" ELSE "panic"
    /\ hist' = <<"syscall">>
    /\ UNCHANGED <<regs, syscall_id, handler_res, exit_regs, getregs_res, state,
                   stderr, iter, lastHandler>>
    /\ UNCHANGED <<made, rdVars>>

\* Wait1 with the wait left out: the loop goes on to read the registers of a
\* child it has only resumed.
Wait1_NoWait ==
    /\ pc = "wait1"
    /\ pc' = "getregs1"
    /\ UNCHANGED <<child, regs, syscall_id, handler_res, exit_regs, getregs_res,
                   state, stderr, iter, hist, lastHandler, made>>
    /\ UNCHANGED <<made, rdVars>>

\* wait_child(child)  (line 123)
Wait1 ==
    /\ pc = "wait1"
    /\ \E r \in WaitPid(child) :
        /\ child' = r.child
        /\ pc' = IF r.ok THEN "getregs1" ELSE "panic"
    /\ hist' = Append(hist, "wait")
    /\ UNCHANGED <<regs, syscall_id, handler_res, exit_regs, getregs_res, state,
                   stderr, iter, lastHandler>>
    /\ UNCHANGED <<made, rdVars>>

\* let mut regs = ptrace::getregs(child).expect(..); let syscall_id = ..
\* (lines 126-127)
GetRegs1 ==
    /\ pc = "getregs1"
    /\ \E r \in GetRegs(child) :
        /\ child' = r.child
        /\ IF r.res = "Ok"
           THEN /\ regs' = r.regs
                /\ syscall_id' = r.regs.orig_rax
                /\ pc' = "pre"
           ELSE /\ pc' = "panic"
                /\ UNCHANGED <<regs, syscall_id>>
    /\ hist' = Append(hist, "getregs")
    /\ UNCHANGED <<handler_res, exit_regs, getregs_res, state, stderr, iter,
                   lastHandler>>
    /\ UNCHANGED <<made, rdVars>>

\* PreHandler with handler_res declared outside the loop and assigned only
\* for a configured syscall: the handoff of an earlier iteration stays in it.
PreHandler_KeepHandoff ==
    /\ pc = "pre"
    /\ IF PreReadFails(child, syscall_id, regs)
       THEN /\ pc' = "panic"
            /\ UNCHANGED <<handler_res, regs, made>>
       ELSE /\ pc' = "syscall2"
            /\ IF syscall_id \in Configured
               THEN /\ handler_res' = handle_pre_syscall(syscall_id, regs)
                    /\ made' = [iter |-> iter, id |-> syscall_id]
               ELSE UNCHANGED <<handler_res, made>>
            /\ regs' \in pre_snapshots(syscall_id, regs)
    /\ hist' = Append(hist, "pre")
    /\ lastHandler' = "pre"
    /\ UNCHANGED <<child, syscall_id, exit_regs, getregs_res, state, stderr, iter>>
    /\ UNCHANGED rdVars

\* let handler_res = syscalls::handle_pre_syscall(..)  (line 129)
PreHandler ==
    /\ pc = "pre"
    /\ IF PreReadFails(child, syscall_id, regs)
       THEN /\ pc' = "panic"
            /\ UNCHANGED <<handler_res, regs, made>>
       ELSE /\ pc' = "syscall2"
            /\ handler_res' = handle_pre_syscall(syscall_id, regs)
            /\ regs' \in pre_snapshots(syscall_id, regs)
            /\ made' = [iter |-> iter, id |-> syscall_id]
    /\ hist' = Append(hist, "pre")
    /\ lastHandler' = "pre"
    /\ UNCHANGED <<child, syscall_id, exit_regs, getregs_res, state, stderr, iter>>
    /\ UNCHANGED rdVars

\* Syscall2 that writes the snapshot back (PTRACE_SETREGS) before the resume.
Syscall2_WriteBack ==
    /\ pc = "syscall2"
    /\ \E r \in PtraceSyscall([child EXCEPT !.nr = regs.orig_rax, !.arg = regs.rdi,
                                            !.mode = regs.rsi, !.ret = regs.rax]) :
        /\ child' = r.child
        /\ pc' = IF r.ok THEN "wait2" ELSE "panic"
    /\ hist' = Append(hist, "syscall")
    /\ UNCHANGED <<regs, syscall_id, handler_res, exit_regs, getregs_res, state,
                   stderr, iter, lastHandler>>
    /\ UNCHANGED <<made, rdVars>>

\* ptrace::syscall(child).expect(..)  (line 132)
Syscall2 ==
    /\ pc = "syscall2"
    /\ \E r \in PtraceSyscall(child) :
        /\ child' = r.child
        /\ pc' = IF r.ok THEN "wait2" ELSE "panic"
    /\ hist' = Append(hist, "syscall")
    /\ UNCHANGED <<regs, syscall_id, handler_res, exit_regs, getregs_res, state,
                   stderr, iter, lastHandler>>
    /\ UNCHANGED <<made, rdVars>>

\* wait_child(child)  (line 133)
Wait2 ==
    /\ pc = "wait2"
    /\ \E r \in WaitPid(child) :
        /\ child' = r.child
        /\ pc' = IF r.ok THEN "getregs2" ELSE "panic"
    /\ hist' = Append(hist, "wait")
    /\ UNCHANGED <<regs, syscall_id, handler_res, exit_regs, getregs_res, state,
                   stderr, iter, lastHandler>>
    /\ UNCHANGED <<made, rdVars>>

\* GetRegs2 with the post-handler also called after a failed read that is not
\* ESRCH.
GetRegs2_PostOnError ==
    /\ pc = "getregs2"
    /\ \E r \in GetRegs(child) :
        /\ child' = r.child
        /\ getregs_res' = r.res
        /\ IF r.res = "ESRCH"
           THEN /\ stderr' = stderr \cup {MsgTerminated}
                /\ pc' = "exited"
                /\ UNCHANGED exit_regs
           ELSE /\ exit_regs' = r.regs
                /\ pc' = "post"
                /\ UNCHANGED stderr
    /\ hist' = Append(hist, "getregs")
    /\ UNCHANGED <<regs, syscall_id, handler_res, state, lastHandler, iter>>
    /\ UNCHANGED <<made, rdVars>>

\* GetRegs2 without the ESRCH test: every failed read is logged and the loop
\* goes on.
GetRegs2_NoEsrchBreak ==
    /\ pc = "getregs2"
    /\ \E r \in GetRegs(child) :
        /\ child' = r.child
        /\ getregs_res' = r.res
        /\ IF r.res = "Ok"
           THEN /\ exit_regs' = r.regs
                /\ pc' = "post"
                /\ UNCHANGED <<stderr, iter>>
           ELSE /\ stderr' = stderr \cup {MsgExitRegs}
                /\ pc' = "syscall1"
                /\ iter' = iter + 1
                /\ UNCHANGED exit_regs
    /\ hist' = Append(hist, "getregs")
    /\ UNCHANGED <<regs, syscall_id, handler_res, state, lastHandler>>
    /\ UNCHANGED <<made, rdVars>>

\* match ptrace::getregs(child) { Ok(..) => .., Err(err) => .. }
\* (lines 136-137, 140-146)
GetRegs2 ==
    /\ pc = "getregs2"
    /\ \E r \in GetRegs(child) :
        /\ child' = r.child
        /\ getregs_res' = r.res
        /\ CASE r.res = "Ok" ->
                  /\ exit_regs' = r.regs
                  /\ pc' = "post"
                  /\ UNCHANGED <<stderr, iter>>
             [] r.res = "ESRCH" ->
                  /\ stderr' = stderr \cup {MsgTerminated}
                  /\ pc' = "exited"
                  /\ UNCHANGED <<exit_regs, iter>>
             [] OTHER ->
                  /\ stderr' = stderr \cup {MsgExitRegs}
                  /\ pc' = "syscall1"
                  /\ iter' = iter + 1
                  /\ UNCHANGED exit_regs
    /\ hist' = Append(hist, "getregs")
    /\ UNCHANGED <<regs, syscall_id, handler_res, state, lastHandler>>
    /\ UNCHANGED <<made, rdVars>>

\* PostHandler, handed the entry snapshot regs of line 126 in place of the
\* registers line 136 binds.
PostHandler_EntryRegs ==
    /\ pc = "post"
    /\ state' = handle_post_syscall(handler_res, state, syscall_id, regs)
    /\ exit_regs' \in post_snapshots(syscall_id, exit_regs)
    /\ pc' = "syscall1"
    /\ iter' = iter + 1
    /\ hist' = Append(hist, "post")
    /\ lastHandler' = "post"
    /\ UNCHANGED <<child, regs, syscall_id, handler_res, getregs_res, stderr>>
    /\ UNCHANGED <<made, rdVars>>

\* syscalls::handle_post_syscall(handler_res, &mut state, child, syscall_id, regs)
\* (line 138)
PostHandler ==
    /\ pc = "post"
    /\ state' = handle_post_syscall(handler_res, state, syscall_id, exit_regs)
    /\ exit_regs' \in post_snapshots(syscall_id, exit_regs)
    /\ pc' = "syscall1"
    /\ iter' = iter + 1
    /\ hist' = Append(hist, "post")
    /\ lastHandler' = "post"
    /\ UNCHANGED <<child, regs, syscall_id, handler_res, getregs_res, stderr>>
    /\ UNCHANGED <<made, rdVars>>

Next ==
    \/ Syscall1
    \/ Wait1
    \/ GetRegs1
    \/ PreHandler
    \/ Syscall2
    \/ Wait2
    \/ GetRegs2
    \/ PostHandler

vars == <<loopVars, rdVars>>

Spec == Init /\ [][Next]_vars

\* --------------------------------------------------------------- the readers
\* A handler calls one of the readers on the stopped child.
ReaderInit ==
    /\ LoopInit
    /\ rd_pc = "call"
    /\ call \in CstrCalls \cup BufferCalls
    /\ current_base = 0
    /\ final_buf = << >>
    /\ nul_idx = -1
    /\ rbuf = << >>
    /\ result = << >>

\* get_child_buffer: let mut rbuf = vec![0; len]; process_vm_readv(..).expect(..)
\* (lines 45-52)
BufRead ==
    /\ rd_pc = "call"
    /\ call.fn = "buffer"
    /\ \E r \in ProcessVmReadv(call.mem, call.base, call.len) :
        IF r.ok
        THEN rbuf' = r.buf /\ rd_pc' = "bufret"
        ELSE rbuf' = rbuf /\ rd_pc' = "panic"
    /\ UNCHANGED <<call, current_base, final_buf, nul_idx, result>>
    /\ UNCHANGED loopVars

\* String::from_utf8_lossy(&rbuf).into_owned()  (line 53)
BufReturn ==
    /\ rd_pc = "bufret"
    /\ result' = from_utf8_lossy(rbuf)
    /\ rd_pc' = "done"
    /\ UNCHANGED <<call, current_base, final_buf, nul_idx, rbuf>>
    /\ UNCHANGED loopVars

\* get_child_buffer_cstr: final_buf, current_base = base, nul_idx = -1
\* (lines 57-63)
CstrEnter ==
    /\ rd_pc = "call"
    /\ call.fn = "cstr"
    /\ final_buf' = << >>
    /\ current_base' = call.base
    /\ nul_idx' = -1
    /\ rd_pc' = "read"
    /\ UNCHANGED <<call, rbuf, result>>
    /\ UNCHANGED loopVars

\* CstrReadChunk without line 81: the cursor stays where it is.
CstrReadChunk_NoAdvance ==
    /\ rd_pc = "read"
    /\ \E r \in ProcessVmReadv(call.mem, current_base, ChunkSize) :
        IF r.ok
        THEN /\ final_buf' = final_buf \o r.buf
             /\ rd_pc' = "check"
        ELSE /\ rd_pc' = "panic"
             /\ UNCHANGED final_buf
    /\ UNCHANGED <<call, current_base, nul_idx, rbuf, result>>
    /\ UNCHANGED loopVars

\* Read a chunk into a temporary buffer, append it to final_buf and advance
\* current_base  (lines 70-81)
CstrReadChunk ==
    /\ rd_pc = "read"
    /\ \E r \in ProcessVmReadv(call.mem, current_base, ChunkSize) :
        IF r.ok
        THEN /\ final_buf' = final_buf \o r.buf
             /\ current_base' = current_base + ChunkSize
             /\ rd_pc' = "check"
        ELSE /\ rd_pc' = "panic"
             /\ UNCHANGED <<final_buf, current_base>>
    /\ UNCHANGED <<call, nul_idx, rbuf, result>>
    /\ UNCHANGED loopVars

\* CstrCheck looking for the zero byte in the last chunk only and recording its
\* index within that chunk.
CstrCheck_LastChunkIndex ==
    /\ rd_pc = "check"
    /\ LET last == SubSeq(final_buf, Len(final_buf) - ChunkSize + 1, Len(final_buf))
       IN  IF Contains(last, 0)
           THEN /\ nul_idx' = Position(last, 0)
                /\ rd_pc' = "ret"
           ELSE /\ rd_pc' = "read"
                /\ UNCHANGED nul_idx
    /\ UNCHANGED <<call, current_base, final_buf, rbuf, result>>
    /\ UNCHANGED loopVars

\* CstrCheck that leaves the loop at the zero byte without recording where
\* it is.
CstrCheck_BreakNoIndex ==
    /\ rd_pc = "check"
    /\ rd_pc' = IF Contains(final_buf, 0) THEN "ret" ELSE "read"
    /\ UNCHANGED <<call, current_base, final_buf, nul_idx, rbuf, result>>
    /\ UNCHANGED loopVars

\* if final_buf.contains(&0) { nul_idx = position; break }  (lines 84-89)
CstrCheck ==
    /\ rd_pc = "check"
    /\ IF Contains(final_buf, 0)
       THEN /\ nul_idx' = Position(final_buf, 0)
            /\ rd_pc' = "ret"
       ELSE /\ rd_pc' = "read"
            /\ UNCHANGED nul_idx
    /\ UNCHANGED <<call, current_base, final_buf, rbuf, result>>
    /\ UNCHANGED loopVars

\* if nul_idx > -1 { from_utf8_lossy(&final_buf[0..nul_idx]) } else { "" }
\* (lines 91-95)
CstrReturn ==
    /\ rd_pc = "ret"
    /\ result' = IF nul_idx > -1
                 THEN from_utf8_lossy(SubSeq(final_buf, 1, nul_idx))
                 ELSE << >>
    /\ rd_pc' = "done"
    /\ UNCHANGED <<call, current_base, final_buf, nul_idx, rbuf>>
    /\ UNCHANGED loopVars

ReaderNext ==
    \/ BufRead
    \/ BufReturn
    \/ CstrEnter
    \/ CstrReadChunk
    \/ CstrCheck
    \/ CstrReturn

SpecReader == ReaderInit /\ [][ReaderNext]_vars

\* ------------------------------------------------- properties of child_loop
\* The handler calls of the current iteration, in order.
IsHandlerCall(e) == e \in {"pre", "post"}
Handlers(h) == SelectSeq(h, IsHandlerCall)

\* An iteration has run to its end (the loop is back at its top or has left).
IterationOver == pc \in {"syscall1", "exited"} /\ hist # << >>

\* C1, as stated: two pre-handler calls never occur without a post-handler
\* call between them, and every pre-handler call is matched by its
\* post-handler call whatever the exit register read returns.
C1_EveryPreMatched ==
    /\ pc = "pre" => lastHandler # "pre"
    /\ IterationOver => Handlers(hist) = <<"pre", "post">>

\* C1, amended: an iteration makes at most one pre-handler call and at most
\* one post-handler call, the post-handler call directly after the pre-handler
\* call of the same iteration; the pre-handler call is matched by its
\* post-handler call exactly when the exit register read succeeds, and is left
\* unmatched when that read fails.
C1_PrePostPairing ==
    /\ Handlers(hist) \in {<< >>, <<"pre">>, <<"pre", "post">>}
    /\ pc = "post" =>
          /\ Handlers(hist) = <<"pre">>
          /\ lastHandler = "pre"
          /\ getregs_res = "Ok"
    /\ Handlers(hist) = <<"pre", "post">> =>
          /\ lastHandler = "post"
          /\ getregs_res = "Ok"
    /\ IterationOver =>
          /\ Handlers(hist) # << >>
          /\ (Handlers(hist) = <<"pre", "post">>) <=> (getregs_res = "Ok")
          /\ Handlers(hist) = <<"pre">> => lastHandler = "pre"

\* An iteration ended with its pre-handler call matched by its post-handler call.
C1_Witness ==
    /\ pc = "syscall1"
    /\ iter >= 1
    /\ Handlers(hist) = <<"pre", "post">>

\* C2: the pre-handler is called with the child stopped at a syscall entry and
\* the post-handler with the child stopped at the exit of that same syscall.
C2_PhaseInStep ==
    /\ pc = "pre" => child.st = "stop" /\ child.at = "entry"
    /\ pc = "post" =>
          child.st = "stop" /\ child.at = "exit" /\ child.nr = syscall_id

\* C3: the exit register read is classified three ways.  Ok: the post-handler
\* is called next, with the handoff and the exit snapshot.  ESRCH: the loop is
\* left (Exited) and no handler is called.  Any other failure: it is logged, no
\* handler is called, ProcessState is as before and the loop is at its top.
\* Once left, the loop takes no step.
C3_ExitReadClassified ==
    /\ [][pc = "getregs2" =>
            /\ state' = state
            /\ handler_res' = handler_res
            /\ lastHandler' = lastHandler
            /\ CASE getregs_res' = "Ok" ->
                      /\ pc' = "post"
                      /\ exit_regs' = RegsOf(child')
                      /\ stderr' = stderr
                 [] getregs_res' = "ESRCH" ->
                      /\ pc' = "exited"
                      /\ MsgExitRegs \in stderr' <=> MsgExitRegs \in stderr
                 [] OTHER ->
                      /\ pc' = "syscall1"
                      /\ iter' = iter + 1
                      /\ MsgExitRegs \in stderr']_vars
    /\ [][pc = "post" =>
            /\ state' = handle_post_syscall(handler_res, state, syscall_id, exit_regs)
            /\ lastHandler' = "post"
            /\ pc' = "syscall1"]_vars
    /\ [][pc # "exited"]_vars

\* A read failure other than ESRCH was logged and the loop went on to a
\* further iteration with the ProcessState it had built.
C3_Witness ==
    /\ pc = "wait1"
    /\ getregs_res = "EIO"
    /\ MsgExitRegs \in stderr
    /\ Len(state.files) >= 1

\* C4: a register read that fails because the child is gone ends the loop
\* gracefully (Exited), at the entry read as at the exit read.
C4_ProcessGoneIsGraceful ==
    (/\ child.st = "gone"
     /\ hist # << >>
     /\ hist[Len(hist)] = "getregs") => pc = "exited"

\* C5: once a wait has reported that the child terminated while it was running
\* (before the entry stop or before the exit stop), the loop's next step
\* detects it and reaches Exited, where it makes no further request or call.
C5_TerminationDetected ==
    /\ [][(pc \in {"getregs1", "getregs2"} /\ child.st = "gone") => pc' = "exited"]_vars
    /\ [][pc # "exited"]_vars

\* C6: the loop is never aborted: it is in its cycle or it has left through
\* the detection of the child's termination.
C6_OnlyExitIsTermination ==
    /\ pc # "panic"
    /\ pc = "exited" => child.st = "gone" /\ getregs_res = "ESRCH"

\* The events e among the first i - 1 of h.
EventsBefore(h, i, e) == Cardinality({j \in 1..(i - 1) : h[j] = e})

\* The last trace request, resume ("syscall") or "wait", before h[i].
LastRequestBefore(h, i) ==
    LET js == {j \in 1..(i - 1) : h[j] \in {"syscall", "wait"}}
    IN  IF js = {} THEN "none"
        ELSE h[CHOOSE j \in js : \A k \in js : k <= j]

\* The phase h[i] belongs to: 1 the entry of the syscall, 2 its exit.
PhaseOf(h, i) ==
    CASE h[i] = "pre" -> 1
      [] h[i] = "post" -> 2
      [] OTHER -> IF EventsBefore(h, i, "pre") = 0 THEN 1 ELSE 2

\* C7: every register read and every handler call comes after a completed wait
\* with no resume request in between, one resume/wait pair having been issued
\* for each phase boundary (one before the entry read and the pre-handler, two
\* before the exit read and the post-handler); and a register read succeeds
\* only on a stopped child.
C7_ReadsOnlyWhileStopped ==
    /\ [](\A i \in 1..Len(hist) :
            hist[i] \in {"getregs", "pre", "post"} =>
                /\ LastRequestBefore(hist, i) = "wait"
                /\ EventsBefore(hist, i, "syscall") = PhaseOf(hist, i)
                /\ EventsBefore(hist, i, "wait") = PhaseOf(hist, i))
    /\ [][(pc \in {"getregs1", "getregs2"} /\ pc' \in {"pre", "post"}) =>
            child.st = "stop" /\ child' = child]_vars

\* The post-handler is about to be called: both reads of the iteration are done.
C7_Witness ==
    /\ pc = "post"
    /\ hist = <<"syscall", "wait", "getregs", "pre", "syscall", "wait", "getregs">>
    /\ child.st = "stop"

\* -------------------------------------------------- properties of the readers
\* C8: a remote read that fails is handed back to the calling handler as a
\* failure value; the reader never panics, which would unwind through the
\* handler and child_loop and abort the tracer.
C8_ReadFailureIsLocal == rd_pc # "panic"

\* The zero bytes that are mapped at or behind the address read from.
NulsFrom(c) == {z \in c.mem.zeros : z >= c.base /\ z < c.mem.mapEnd}

FirstNul(c) == CHOOSE z \in NulsFrom(c) : \A y \in NulsFrom(c) : z <= y

\* The child's bytes from the address up to but excluding the first zero byte.
BytesToNul(c) == [i \in 1..(FirstNul(c) - c.base) |-> Byte(c.mem, c.base + i - 1)]

\* The value get_child_buffer_cstr gives when its scan finds no zero byte.
ScanFailure == <<-1>>

ScanBound == MaxScanChunks * ChunkSize

\* C9: when the scan bound from the address on is mapped and holds no zero
\* byte, get_child_buffer_cstr reads no chunk beyond the bound and ends by
\* returning an explicit failure.
C9_BoundedScan ==
    (/\ call.fn = "cstr"
     /\ call.base + ScanBound <= call.mem.mapEnd
     /\ \A z \in NulsFrom(call) : z >= call.base + ScanBound)
    => /\ Len(final_buf) <= ScanBound
       /\ rd_pc \in {"done", "panic"} => rd_pc = "done" /\ result = ScanFailure

\* C10, as stated: when a zero byte follows the address, get_child_buffer_cstr
\* returns exactly the bytes from the address up to the first zero byte.
C10_ExactBytes ==
    (call.fn = "cstr" /\ rd_pc = "done" /\ NulsFrom(call) # {})
    => result = BytesToNul(call)

\* Every sequence of s the left-to-right scan meets is well-formed UTF-8.
IsUtf8(s) == \A p \in 1..Len(s) : IsStart(s, p) => UnitAt(s, p).ok

\* C10, amended: when a zero byte follows the address, the value
\* get_child_buffer_cstr returns is the permissive UTF-8 decoding of the bytes
\* from the address up to the first zero byte: those very bytes when they are
\* well-formed UTF-8, and otherwise not those bytes but their decoding with
\* U+FFFD in place of each ill-formed sequence; whichever chunk and offset
\* the zero byte is at.
C10_DecodedPrefix ==
    (call.fn = "cstr" /\ rd_pc = "done" /\ NulsFrom(call) # {})
    => /\ nul_idx = FirstNul(call) - call.base
       /\ result = from_utf8_lossy(BytesToNul(call))
       /\ IsUtf8(BytesToNul(call)) <=> result = BytesToNul(call)
       /\ \A i \in 1..Len(result) : result[i] # 0

\* A string that spans all the chunks and is not well-formed UTF-8 has been
\* returned.
C10_Witness ==
    /\ call.fn = "cstr"
    /\ rd_pc = "done"
    /\ NulsFrom(call) # {}
    /\ Len(final_buf) = MaxChunks * ChunkSize
    /\ FirstNul(call) - call.base > (MaxChunks - 1) * ChunkSize
    /\ ~IsUtf8(BytesToNul(call))

\* The child's bytes at [base, base + len).
BytesOfRange(c) == [i \in 1..c.len |-> Byte(c.mem, c.base + i - 1)]

\* C11: when [base, base + len) is mapped in full, get_child_buffer returns
\* exactly len bytes, the child's bytes at that range, never fewer nor more.
C11_ExactlyNBytes ==
    (/\ call.fn = "buffer"
     /\ rd_pc = "done"
     /\ call.base + call.len <= call.mem.mapEnd)
    => /\ Len(result) = call.len
       /\ result = BytesOfRange(call)

\* ps holds a record of the file f in state s.
HasRec(ps, f, s) == FindRec(ps.files, f, s) > 0

\* The loop is about to run the post-handler at the syscall-exit-stop of the
\* child's syscall nr on f, which returned ret.
PostOf(nr, f, ret) ==
    /\ pc = "post"
    /\ child.st = "stop" /\ child.at = "exit"
    /\ child.nr = nr /\ child.arg = f /\ child.ret = ret

OtherRecs(ps, f) == SelectSeq(ps.files, LAMBDA r : r.filename # f)

\* C13: the post-phase of a successful close of a file that has no Opened
\* record (never opened, or Closed already) changes nothing in ProcessState and
\* the loop goes on to its next iteration; a close changes no record of another
\* file; closing twice gives the state that closing once gives.
C13_CloseWithoutOpen ==
    [][\A f \in Paths :
        /\ (PostOf("close", f, "ok") /\ ~HasRec(state, f, "Opened"))
              => (state' = state /\ pc' = "syscall1" /\ stderr' = stderr)
        /\ PostOf("close", f, "ok")
              => (/\ OtherRecs(state', f) = OtherRecs(state, f)
                  /\ Len(state'.files) = Len(state.files))
        /\ record_close(record_close(state, f), f) = record_close(state, f)]_vars

\* The loop has run the post-phase of a successful close of a file it has no
\* record of, with records of other files present.
C13_Witness ==
    \E f \in Paths :
        /\ pc = "syscall1" /\ lastHandler = "post"
        /\ child.at = "exit" /\ child.nr = "close" /\ child.arg = f /\ child.ret = "ok"
        /\ ~HasRec(state, f, "Opened") /\ ~HasRec(state, f, "Closed")
        /\ state.files # << >>

\* C14: for a syscall id without an entry in the configuration the pre-dispatch
\* returns no handoff and the pre- and the post-dispatch leave ProcessState, the
\* snapshot handed to them and the child's registers as they were.
C14_UnconfiguredPassThrough ==
    [][syscall_id \notin Configured =>
        /\ pc = "pre" => /\ handler_res' = NoHandoff
                         /\ state' = state
                         /\ regs' = regs
                         /\ child' = child
                         /\ pc' = "syscall2"
        /\ pc = "post" => /\ state' = state
                          /\ exit_regs' = exit_regs
                          /\ child' = child
                          /\ handler_res = NoHandoff]_vars

\* An unconfigured syscall has gone through both phases, in step with the
\* child, while ProcessState holds records.
C14_Witness ==
    /\ pc = "syscall1" /\ lastHandler = "post"
    /\ syscall_id = "getpid"
    /\ child.at = "exit" /\ child.nr = "getpid"
    /\ state.files # << >>

\* C15: when every byte from the address through the first zero byte is
\* mapped, get_child_buffer_cstr does not end in a read failure, wherever the
\* mapping ends behind the zero byte.
C15_TerminatorNearEndOfMap ==
    (call.fn = "cstr" /\ NulsFrom(call) # {}) => rd_pc # "panic"

\* C16: the syscall id is the orig_rax of the entry snapshot of the iteration
\* and stays what it is until the post-handler has run, whatever the
\* pre-handler does to the snapshot; the handoff the post-handler gets is the
\* one the pre-handler of the same iteration returned for that id, never one
\* made in an earlier iteration or for another id.
C16_SameIterationHandoff ==
    [][/\ (pc = "getregs1" /\ pc' = "pre")
            => (regs' = RegsOf(child') /\ syscall_id' = regs'.orig_rax)
       /\ (pc = "pre" /\ pc' = "syscall2")
            => handler_res' = handle_pre_syscall(syscall_id, regs)
       /\ pc \in {"pre", "syscall2", "wait2", "getregs2", "post"}
            => syscall_id' = syscall_id
       /\ (pc \in {"pre", "syscall2", "wait2", "getregs2"} /\ pc' # "syscall1")
            => iter' = iter
       /\ pc \in {"syscall2", "wait2", "getregs2", "post"}
            => (handler_res' = handler_res /\ made' = made)
       /\ pc = "post"
            => /\ made = [iter |-> iter, id |-> syscall_id]
               /\ state' = handle_post_syscall(handler_res, state, syscall_id, exit_regs)]_vars

\* The post-handler is about to get the handoff of a close in the third
\* iteration, the file is on record as Opened by an earlier one, and the
\* pre-handler has changed orig_rax in the snapshot the id was taken from.
C16_Witness ==
    /\ pc = "post" /\ iter = 2
    /\ syscall_id = "close" /\ handler_res.tag = "close"
    /\ regs.orig_rax = NoSyscall
    /\ HasRec(state, handler_res.path, "Opened")

\* The requests child_loop makes of the child, and the handler calls.
LoopEvents == {"syscall", "wait", "getregs", "pre", "post"}

\* C17: child_loop asks the child for nothing but a resume to the next syscall
\* stop, a wait and a register read.  A handler call leaves the child as it
\* is; a resume changes nothing of the child but that it runs (or finds it
\* gone); a register read changes nothing (or finds it gone).  So what a
\* handler has changed in its snapshot does not reach the child: at the exit
\* stop the child still reports the syscall it entered.
C17_LoopNeverWritesRegisters ==
    [][/\ \A i \in 1..Len(hist') : hist'[i] \in LoopEvents
       /\ pc \in {"pre", "post"} => child' = child
       /\ pc \in {"syscall1", "syscall2"}
            => child' \in {child, [child EXCEPT !.st = "run"], ChildGone}
       /\ pc \in {"getregs1", "getregs2"} => child' \in {child, ChildGone}
       /\ (pc = "post" /\ child.at = "exit") => exit_regs.orig_rax = syscall_id]_vars

\* The pre-handler of an open has changed orig_rax in its snapshot and the
\* loop has resumed the child, which goes on with the open it entered.
C17_Witness ==
    /\ pc = "wait2"
    /\ syscall_id = "open" /\ regs.orig_rax = NoSyscall
    /\ child.st = "run" /\ child.at = "entry" /\ child.nr = "open"

\* get_child_buffer_cstr is past its initialisation.
InCstr == call.fn = "cstr" /\ rd_pc \in {"read", "check", "ret", "done", "panic"}

\* The chunks of final_buf before the last one read.
EarlierChunks ==
    IF rd_pc = "read" \/ Len(final_buf) < ChunkSize THEN final_buf
    ELSE SubSeq(final_buf, 1, Len(final_buf) - ChunkSize)

\* C18: at every point of the chunk loop the cursor is the start address plus
\* the length of final_buf, the length is a multiple of 255 and the chunks
\* before the last one read hold no zero byte; when the loop has ended the
\* chunks read are those up to and including the chunk that holds the first
\* zero byte, and none behind it.
C18_ChunkLoopInvariant ==
    InCstr =>
        /\ current_base = call.base + Len(final_buf)
        /\ Len(final_buf) % ChunkSize = 0
        /\ ~Contains(EarlierChunks, 0)
        /\ rd_pc \in {"ret", "done"} =>
              /\ Contains(final_buf, 0)
              /\ Len(final_buf) = (Position(final_buf, 0) \div ChunkSize + 1) * ChunkSize
              /\ NulsFrom(call) # {} =>
                    Len(final_buf) =
                        ((FirstNul(call) - call.base) \div ChunkSize + 1) * ChunkSize

\* The loop has ended at a zero byte of the third chunk.
C18_Witness ==
    /\ call.fn = "cstr" /\ rd_pc = "ret"
    /\ NulsFrom(call) # {}
    /\ Len(final_buf) = 3 * ChunkSize
    /\ nul_idx >= 2 * ChunkSize

\* C19: when the chunk loop has ended nul_idx is not negative, so the value
\* returned is never the fallback of line 94; the value returned is empty only
\* when the byte at the start address is mapped and zero.
C19_FallbackUnreachable ==
    (call.fn = "cstr" /\ rd_pc \in {"ret", "done"}) =>
        /\ nul_idx >= 0
        /\ nul_idx < Len(final_buf) /\ final_buf[nul_idx + 1] = 0
        /\ (rd_pc = "done" /\ result = << >>) =>
              /\ nul_idx = 0
              /\ call.base < call.mem.mapEnd
              /\ Byte(call.mem, call.base) = 0

\* get_child_buffer_cstr has returned the empty string for a zero byte at the
\* start address.
C19_Witness ==
    /\ call.fn = "cstr" /\ rd_pc = "done"
    /\ result = << >> /\ nul_idx = 0
    /\ call.base \in call.mem.zeros
====
